---- MODULE Spec2Model ----
(***************************************************************************)
(* Model of the face-extraction pipeline of AutoMakeup                     *)
(* (src/src/dataset/data/extract_faces.py): the extraction loop of         *)
(* extract_faces, extract_face, extract_landmarks, and the two cleanup     *)
(* passes clean_incomplete_face_pairs and clean_landmarks, over a model of *)
(* the source, faces and landmarks directories.                            *)
(*                                                                         *)
(* A directory is a function from file names to the content stored under   *)
(* the name: "none" (no such file), "full" (a completely written file) or  *)
(* "part" (a file a failed save left truncated).  A directory listing is   *)
(* the set of names present when the listing is taken; a pass picks the    *)
(* names of its listing in any order.                                      *)
(***************************************************************************)
EXTENDS Integers, FiniteSets

\* ------------------------------------------------------------------ bounds
MaxRuns == 2
MaxFaults == 1

\* ------------------------------------------------------------- file names
Indices == {1, 2}
Which == {"before", "after"}
Exts == {"jpg"}
Kinds == {"png", "pickle"}

\* "{index}-{which}.{ext}": a file of the source and of the faces directory
Names == [index : Indices, which : Which, ext : Exts]
\* The images the source directory may hold
SourceNames == {n \in Names : n.index = 1 \/ n.which = "before"}
\* "{index}-{which}": a file name split at its first "."
Stems == [index : Indices, which : Which]
\* "{stem}.png" and "{stem}.pickle": a file of the landmarks directory
LmFiles == [stem : Stems, kind : Kinds]

\* What the deterministic detector makes of a source image:
\*   "absent" the source directory holds no such image
\*   "good"   a face is found in the image and in its crop
\*   "noface" the image cannot be decoded, or no face is found in it
\*   "nolm"   a face is found in the image but none in the saved crop
Fates == {"absent", "good", "noface", "nolm"}

\* An input/output error injected into one step
ExtractFaults == {"none", "faceAbsent", "facePart", "pngAbsent", "pngPart",
                  "pickleSame", "picklePart"}

VARIABLES
    fate,       \* source directory: the detector's verdict on each image
    faces,      \* faces directory: content by name
    lms,        \* landmarks directory: content by name
    pc,         \* "idle", "loop", "pair", "orphan"
    wl, ep,     \* with_landmarks, ensure_pairs of the current (or last) run
    todo,       \* names of the current listing not yet visited (source, faces)
    todoL,      \* landmark files of the current listing not yet visited
    faces_set,  \* clean_landmarks: the set of face stems it built
    runs,       \* runs started
    faults,     \* input/output errors injected so far
    result,     \* how the last run ended: "none", "returned", "raised"
    hist        \* what the current run did (a record, see NewHist)

vars == <<fate, faces, lms, pc, wl, ep, todo, todoL, faces_set, runs, faults,
          result, hist>>

\* ------------------------------------------------------------ file system
\* files_iter(directory): the names of the files of a directory
files_iter(dir) == {n \in DOMAIN dir : dir[n] # "none"}

\* os.path.exists
exists(dir, n) == dir[n] # "none"

\* file_name.split(".")[0]
face_stem(f) == [index |-> f.index, which |-> f.which]

\* landmarks.split(".")[0]
landmarks_stem(l) == l.stem

\* file_name.split(".")[0] + ".png"
landmarks_name(f) == [stem |-> face_stem(f), kind |-> "png"]

\* os.path.splitext(landmarks_name)[0] + ".pickle"
pickle_name(f) == [stem |-> landmarks_name(f).stem, kind |-> "pickle"]

\* other_file with the role left as it is
other_file_same(f) == f

\* "{}-{}.{}".format(index, other_which, ext)
other_file(f) ==
    [index |-> f.index,
     which |-> IF f.which = "before" THEN "after" ELSE "before",
     ext |-> f.ext]

\* --------------------------------------------------------------- history
NoPrev == [valid |-> FALSE, flags |-> <<FALSE, FALSE>>, clean |-> FALSE,
           created |-> {}, createdL |-> {}]

NewHist(fs, ls, prev) ==
    [attempted |-> {},      \* source files the loop has visited
     failed |-> {},         \* source files whose iteration raised
     ioFailed |-> {},       \* source files hit by an injected error
     worked |-> {},         \* source files loaded, aligned and cropped
     created |-> {},        \* face files saved completely
     workedL |-> {},        \* face files whose landmarks were computed
     createdL |-> {},       \* landmark files written completely
     overwritten |-> {},    \* landmark files written over an existing file
     deleted |-> {},        \* face files removed by the pairing pass
     deletedL |-> {},       \* landmark files removed by the orphan pass
     pairStart |-> {},      \* faces present when the pairing pass started
     delFailed |-> {},      \* face files whose removal raised
     delFailedL |-> {},     \* landmark files whose removal raised
     loopDone |-> FALSE,    \* the extraction loop has ended
     pairRan |-> FALSE,     \* the pairing pass has ended
     orphanRan |-> FALSE,   \* the orphan pass has ended
     clean |-> TRUE,        \* no error was injected in this run
     startFaces |-> fs,     \* the faces directory when the run started
     startLms |-> ls,       \* the landmarks directory when the run started
     prev |-> prev]         \* the run before this one

Init ==
    /\ fate \in {ft \in [Names -> Fates] :
                    \A n \in Names \ SourceNames : ft[n] = "absent"}
    /\ faces = [n \in Names |-> "none"]
    /\ lms = [l \in LmFiles |-> "none"]
    /\ pc = "idle"
    /\ wl = FALSE
    /\ ep = FALSE
    /\ todo = {}
    /\ todoL = {}
    /\ faces_set = {}
    /\ runs = 0
    /\ faults = 0
    /\ result = "none"
    /\ hist = NewHist(faces, lms, NoPrev)

\* ------------------------------------------------------------ extraction
\* extract_face without the check for an existing face image
extract_face_always(f, fc) ==
    LET detect == fate[f] \in {"good", "nolm"}
        fault == fc \in {"faceAbsent", "facePart"}
    IN  [faces |-> IF detect
                   THEN [faces EXCEPT ![f] =
                            CASE fc = "faceAbsent" -> "none"
                              [] fc = "facePart" -> "part"
                              [] OTHER -> "full"]
                   ELSE faces,
         raised |-> ~detect \/ fault,
         worked |-> TRUE,
         saved |-> detect /\ ~fault,
         hit |-> detect /\ fault]

\* extract_face: the face directory after the call, whether it raised, and
\* what it did.  fc is the error injected into this iteration, if any.
extract_face(f, fc) ==
    LET work == ~exists(faces, f)
        detect == fate[f] \in {"good", "nolm"}
        reached == work /\ detect
        fault == fc \in {"faceAbsent", "facePart"}
    IN  [faces |-> IF reached
                   THEN [faces EXCEPT ![f] =
                            CASE fc = "faceAbsent" -> "none"
                              [] fc = "facePart" -> "part"
                              [] OTHER -> "full"]
                   ELSE faces,
         raised |-> work /\ (~detect \/ fault),
         worked |-> work,
         saved |-> reached /\ ~fault,
         hit |-> reached /\ fault]

\* extract_landmarks on the faces directory fs
extract_landmarks(f, fs, fc) ==
    LET png == landmarks_name(f)
        pk == pickle_name(f)
        work == ~exists(lms, png)
        detect == fs[f] = "full" /\ fate[f] = "good"
        pngReached == work /\ detect
        pngFault == fc \in {"pngAbsent", "pngPart"}
        pkReached == pngReached /\ ~pngFault
        pkFault == fc \in {"pickleSame", "picklePart"}
        lms1 == IF pngReached
                THEN [lms EXCEPT ![png] =
                         CASE fc = "pngAbsent" -> "none"
                           [] fc = "pngPart" -> "part"
                           [] OTHER -> "full"]
                ELSE lms
        lms2 == IF pkReached
                THEN [lms1 EXCEPT ![pk] =
                         CASE fc = "pickleSame" -> @
                           [] fc = "picklePart" -> "part"
                           [] OTHER -> "full"]
                ELSE lms1
    IN  [lms |-> lms2,
         raised |-> work /\ (~detect \/ pngFault \/ pkFault),
         worked |-> work,
         saved |-> (IF pngReached /\ ~pngFault THEN {png} ELSE {})
                   \cup (IF pkReached /\ ~pkFault THEN {pk} ELSE {}),
         overwrote |-> IF pkReached /\ fc # "pickleSame" /\ exists(lms, pk)
                       THEN {pk} ELSE {},
         hit |-> (pngReached /\ pngFault) \/ (pkReached /\ pkFault)]

NoLandmarks ==
    [lms |-> lms, raised |-> FALSE, worked |-> FALSE, saved |-> {},
     overwrote |-> {}, hit |-> FALSE]

\* The run ends: extract_faces returns, or an exception leaves it
Finish(how) ==
    /\ pc' = "idle"
    /\ result' = how
    /\ todo' = {}
    /\ todoL' = {}

\* One iteration of the loop of extract_faces on source file f; catch says
\* whether the iteration's exception is caught
Iteration(f, fc, catch) ==
    LET a == extract_face(f, fc)
        b == IF wl /\ ~a.raised THEN extract_landmarks(f, a.faces, fc)
             ELSE NoLandmarks
        raised == a.raised \/ b.raised
    IN  /\ fc # "none" => (faults < MaxFaults /\ (a.hit \/ b.hit))
        /\ faces' = a.faces
        /\ lms' = b.lms
        /\ faults' = IF fc = "none" THEN faults ELSE faults + 1
        /\ hist' = [hist EXCEPT
              !.attempted = @ \cup {f},
              !.failed = IF raised THEN @ \cup {f} ELSE @,
              !.ioFailed = IF fc # "none" THEN @ \cup {f} ELSE @,
              !.worked = IF a.worked THEN @ \cup {f} ELSE @,
              !.created = IF a.saved THEN @ \cup {f} ELSE @,
              !.workedL = IF b.worked THEN @ \cup {f} ELSE @,
              !.createdL = @ \cup b.saved,
              !.overwritten = @ \cup b.overwrote,
              !.clean = @ /\ fc = "none"]
        /\ IF raised /\ ~catch
           THEN Finish("raised")
           ELSE /\ todo' = todo \ {f}
                /\ UNCHANGED <<pc, result, todoL>>
        /\ UNCHANGED <<fate, wl, ep, faces_set, runs>>

\* extract_faces, up to the listing of the source directory
Start(w, e) ==
    /\ pc = "idle"
    /\ runs < MaxRuns
    /\ runs' = runs + 1
    /\ wl' = w
    /\ ep' = e
    /\ pc' = "loop"
    /\ todo' = {n \in Names : fate[n] # "absent"}
    /\ result' = "none"
    /\ hist' = NewHist(faces, lms,
                  [valid |-> runs > 0, flags |-> <<wl, ep>>,
                   clean |-> hist.clean /\ result = "returned",
                   created |-> hist.created, createdL |-> hist.createdL])
    /\ UNCHANGED <<fate, faces, lms, todoL, faces_set, faults>>

\* The loop's iteration without its try/except
ExtractStepNoCatch(f) ==
    /\ pc = "loop"
    /\ f \in todo
    /\ \E fc \in ExtractFaults : Iteration(f, fc, FALSE)

\* extract_faces: one iteration of its loop, with its try/except
ExtractStep(f) ==
    /\ pc = "loop"
    /\ f \in todo
    /\ \E fc \in ExtractFaults : Iteration(f, fc, TRUE)

\* ---------------------------------------------------------------- cleanup
\* clean_landmarks on the faces the pairing pass found, not those it left
EnterOrphanStale ==
    /\ pc' = "orphan"
    /\ faces_set' = {face_stem(f) :
                       f \in IF ep THEN hist.pairStart ELSE files_iter(faces)}
    /\ todoL' = files_iter(lms)
    /\ todo' = {}
    /\ UNCHANGED result

\* clean_landmarks begins: the set of face stems, the landmarks listing
EnterOrphan ==
    /\ pc' = "orphan"
    /\ faces_set' = {face_stem(f) : f \in files_iter(faces)}
    /\ todoL' = files_iter(lms)
    /\ todo' = {}
    /\ UNCHANGED result

\* clean_incomplete_face_pairs begins: the faces listing
EnterPair ==
    /\ pc' = "pair"
    /\ todo' = files_iter(faces)
    /\ UNCHANGED <<todoL, faces_set, result>>

\* extract_faces: the loop has ended
EndLoop ==
    /\ pc = "loop"
    /\ todo = {}
    /\ hist' = [hist EXCEPT !.loopDone = TRUE,
                            !.pairStart = IF ep THEN files_iter(faces) ELSE @]
    /\ IF ep THEN EnterPair
       ELSE IF wl THEN EnterOrphan
       ELSE Finish("returned") /\ UNCHANGED faces_set
    /\ UNCHANGED <<fate, faces, lms, wl, ep, runs, faults>>

\* The test of clean_incomplete_face_pairs with its condition inverted
unpaired_inverted(f) == exists(faces, other_file(f))

\* Whether clean_incomplete_face_pairs removes f
unpaired(f) == ~exists(faces, other_file(f))

\* clean_incomplete_face_pairs: one iteration on face file f; io says whether
\* os.remove raises
PairStep(f) ==
    /\ pc = "pair"
    /\ f \in todo
    /\ \E io \in BOOLEAN :
        /\ io => (faults < MaxFaults /\ unpaired(f))
        /\ faults' = IF io THEN faults + 1 ELSE faults
        /\ faces' = IF unpaired(f) /\ ~io THEN [faces EXCEPT ![f] = "none"]
                    ELSE faces
        /\ hist' = [hist EXCEPT
              !.deleted = IF unpaired(f) /\ ~io THEN @ \cup {f} ELSE @,
              !.delFailed = IF io THEN @ \cup {f} ELSE @,
              !.clean = @ /\ ~io]
        /\ IF io
           THEN Finish("raised")
           ELSE /\ todo' = todo \ {f}
                /\ UNCHANGED <<pc, result, todoL>>
    /\ UNCHANGED <<fate, lms, wl, ep, faces_set, runs>>

\* extract_faces: the pairing pass has returned
EndPair ==
    /\ pc = "pair"
    /\ todo = {}
    /\ hist' = [hist EXCEPT !.pairRan = TRUE]
    /\ IF wl THEN EnterOrphan
       ELSE Finish("returned") /\ UNCHANGED faces_set
    /\ UNCHANGED <<fate, faces, lms, wl, ep, runs, faults>>

\* Whether clean_landmarks removes l
orphaned(l) == landmarks_stem(l) \notin faces_set

\* clean_landmarks: one iteration on landmark file l
OrphanStep(l) ==
    /\ pc = "orphan"
    /\ l \in todoL
    /\ \E io \in BOOLEAN :
        /\ io => (faults < MaxFaults /\ orphaned(l))
        /\ faults' = IF io THEN faults + 1 ELSE faults
        /\ lms' = IF orphaned(l) /\ ~io THEN [lms EXCEPT ![l] = "none"]
                  ELSE lms
        /\ hist' = [hist EXCEPT
              !.deletedL = IF orphaned(l) /\ ~io THEN @ \cup {l} ELSE @,
              !.delFailedL = IF io THEN @ \cup {l} ELSE @,
              !.clean = @ /\ ~io]
        /\ IF io
           THEN Finish("raised")
           ELSE /\ todoL' = todoL \ {l}
                /\ UNCHANGED <<pc, result, todo>>
    /\ UNCHANGED <<fate, faces, wl, ep, faces_set, runs>>

\* extract_faces: the orphan pass has returned, and so does extract_faces
EndOrphan ==
    /\ pc = "orphan"
    /\ todoL = {}
    /\ hist' = [hist EXCEPT !.orphanRan = TRUE]
    /\ Finish("returned")
    /\ UNCHANGED <<fate, faces, lms, wl, ep, faces_set, runs, faults>>

Next ==
    \/ \E w \in BOOLEAN, e \in BOOLEAN : Start(w, e)
    \/ \E f \in Names : ExtractStep(f)
    \/ EndLoop
    \/ \E f \in Names : PairStep(f)
    \/ EndPair
    \/ \E l \in LmFiles : OrphanStep(l)
    \/ EndOrphan

Spec == Init /\ [][Next]_vars

\* ------------------------------------------------------------- properties
Ended == pc = "idle" /\ runs > 0
Returned == pc = "idle" /\ result = "returned"
Source == {n \in Names : fate[n] # "absent"}
FaceStems == {face_stem(f) : f \in files_iter(faces)}
SameFlagsAgain == hist.prev.valid /\ hist.prev.flags = <<wl, ep>>
\* g is the partner of f: same index and extension, the other role
Partner(f, g) == g.index = f.index /\ g.ext = f.ext /\ g.which # f.which
HasPartner(f, fs) == \E g \in fs : Partner(f, g)
Survivors(fs) == {f \in fs : HasPartner(f, fs)}

\* C1: after extract_faces returns from a run with ensure_pairs, every index
\* has both its before and its after face image (of one extension) in the
\* faces directory, or neither.
C1_PairingInvariant ==
    (Returned /\ ep) =>
        \A i \in Indices, e \in Exts :
            exists(faces, [index |-> i, which |-> "before", ext |-> e])
            <=> exists(faces, [index |-> i, which |-> "after", ext |-> e])

\* A run with ensure_pairs returned: faces were there before it, a file
\* failed, an unpaired face was removed and a pair was kept.
C1_Witness ==
    /\ Returned /\ ep
    /\ files_iter(hist.startFaces) # {}
    /\ hist.failed # {}
    /\ hist.deleted # {}
    /\ \E f \in files_iter(faces) : HasPartner(f, files_iter(faces))

\* C2: after extract_faces returns from a run with with_landmarks, every
\* file of the landmarks directory has the stem of a file of the faces
\* directory.
C2_OrphanInvariant ==
    (Returned /\ wl) =>
        \A l \in files_iter(lms) : landmarks_stem(l) \in FaceStems

\* A run with both flags returned: the pairing pass removed a face, the
\* orphan pass removed its landmarks, and other landmarks were kept.
C2_Witness ==
    /\ Returned /\ wl /\ ep
    /\ \E f \in hist.deleted :
          {landmarks_name(f), pickle_name(f)} \subseteq hist.deletedL
    /\ files_iter(lms) # {}

\* C3: the second of two consecutive runs with the same flags, neither hit
\* by an input/output error, leaves the faces and the landmarks directory
\* as the first left them, names and contents.
C3_Idempotent ==
    (Returned /\ SameFlagsAgain /\ hist.prev.clean /\ hist.clean) =>
        (faces = hist.startFaces /\ lms = hist.startLms)

\* Such a second run returned, having extracted a face anew and removed it
\* again, with faces and landmarks left on disk.
C3_Witness ==
    /\ Returned /\ SameFlagsAgain /\ hist.prev.clean /\ hist.clean
    /\ hist.created # {}
    /\ hist.deleted # {}
    /\ files_iter(faces) # {}
    /\ files_iter(lms) # {}

\* C4 as stated: in the second of two consecutive runs with the same flags,
\* no source file whose face image the first run produced is loaded,
\* aligned, cropped or written again, and no landmarks the first run wrote
\* are computed or written again.
C4_NoRedundantWork ==
    (SameFlagsAgain /\ hist.prev.clean /\ hist.clean) =>
        /\ hist.worked \cap hist.prev.created = {}
        /\ \A f \in hist.workedL :
              /\ landmarks_name(f) \notin hist.prev.createdL
              /\ pickle_name(f) \notin hist.prev.createdL

\* C4 as amended: in the second of two consecutive runs with the same flags,
\* a source file whose face image the first run produced and which is still
\* in the faces directory when the second run starts is not loaded, aligned,
\* cropped or written again; and landmarks whose raster the first run wrote
\* and which is still there when the second run starts are not computed or
\* written again.
C4_NoRedundantWorkOnPresent ==
    SameFlagsAgain =>
        /\ \A f \in hist.prev.created :
              exists(hist.startFaces, f) => f \notin hist.worked
        /\ \A f \in Names :
              (/\ landmarks_name(f) \in hist.prev.createdL
               /\ exists(hist.startLms, landmarks_name(f)))
              => (/\ f \notin hist.workedL
                  /\ landmarks_name(f) \notin hist.createdL
                  /\ pickle_name(f) \notin hist.createdL)

\* The second run returned after visiting a file whose face and landmarks
\* the first run produced and left on disk.
C4_Witness ==
    /\ Returned /\ SameFlagsAgain /\ wl
    /\ \E f \in hist.prev.created \cap hist.attempted :
          /\ exists(hist.startFaces, f)
          /\ landmarks_name(f) \in hist.prev.createdL
          /\ exists(hist.startLms, landmarks_name(f))

\* C5: a failure on one source file never ends the loop of extract_faces:
\* every file of the source directory is attempted, and when the loop ends
\* every file a face can be extracted from, and that no input/output error
\* hit, has its face image in the faces directory.
C5_FaultIsolation ==
    /\ (pc = "loop" /\ todo = {}) =>
          /\ hist.attempted = Source
          /\ \A f \in Source :
                (fate[f] \in {"good", "nolm"} /\ f \notin hist.ioFailed)
                => exists(faces, f)
    /\ (pc # "loop" /\ runs > 0) => (hist.loopDone /\ hist.attempted = Source)

\* The loop has ended: some files failed, one of them on an input/output
\* error, and other files had their face extracted.
C5_Witness ==
    /\ pc = "loop" /\ todo = {}
    /\ hist.ioFailed # {}
    /\ \E f \in hist.failed : fate[f] = "noface"
    /\ hist.created # {}

\* The artifacts of source file f that the current run created
NewArtifacts(f) ==
    {x \in {"face"} : exists(faces, f) /\ ~exists(hist.startFaces, f)}
    \cup {l \in {landmarks_name(f), pickle_name(f)} :
            exists(lms, l) /\ ~exists(hist.startLms, l)}

\* All the artifacts the current run is to produce for f are there, complete
Complete(f) ==
    /\ faces[f] = "full"
    /\ wl => (lms[landmarks_name(f)] = "full" /\ lms[pickle_name(f)] = "full")

\* C6 as stated, for the failures that come from the images themselves (no
\* input/output error in the run): while the loop runs, a source file whose
\* processing failed has either all the artifacts the run is to produce for
\* it, or none that this run created.
C6_NoPartialArtifact ==
    (pc = "loop" /\ hist.clean) =>
        \A f \in hist.failed : NewArtifacts(f) = {} \/ Complete(f)

\* C7 as stated: when a removal fails in a cleanup pass, every other file the
\* pass is to remove is removed all the same, and the orphan pass still runs
\* after a pairing pass that met such a failure.
C7_DeleteFailureIsolated ==
    (Ended /\ hist.loopDone) =>
        /\ ep => \A f \in hist.pairStart \ hist.delFailed :
                    ~HasPartner(f, hist.pairStart) => ~exists(faces, f)
        /\ wl => \A l \in files_iter(lms) \ hist.delFailedL :
                    landmarks_stem(l) \in FaceStems

\* C8: when the pairing pass has visited every file of its listing, in
\* whatever order, the faces left are exactly those whose partner was there
\* when the pass started.
C8_PairOrderIndependent ==
    (pc = "pair" /\ todo = {}) =>
        files_iter(faces) = Survivors(hist.pairStart)

\* The pairing pass has ended on a listing of three files or more, one pair
\* kept and one unpaired face removed.
C8_Witness ==
    /\ pc = "pair" /\ todo = {}
    /\ Cardinality(hist.pairStart) >= 3
    /\ hist.deleted # {}
    /\ files_iter(faces) # {}

\* C9 as stated, for the landmark files that no failed save left truncated:
\* after a run with with_landmarks returned, a face the run processed without
\* error has its raster if and only if it has its pickle.
C9_PickleMirrorsRaster ==
    (Returned /\ wl) =>
        \A f \in hist.attempted \ hist.failed :
            (/\ exists(faces, f)
             /\ lms[landmarks_name(f)] # "part"
             /\ lms[pickle_name(f)] # "part")
            => (exists(lms, landmarks_name(f)) <=> exists(lms, pickle_name(f)))

\* C10 as stated: the pairing pass removes no face whose partner was there
\* when the pass started; the orphan pass removes no landmark file whose stem
\* is that of a face and leaves the faces alone; the extraction loop neither
\* removes nor overwrites an existing face, raster or pickle.
C10_DestroyOnlyOrphans ==
    /\ \A f \in hist.deleted : ~HasPartner(f, hist.pairStart)
    /\ \A l \in hist.deletedL : landmarks_stem(l) \notin FaceStems
    /\ pc = "orphan" => faces_set = FaceStems
    /\ pc = "loop" =>
          /\ \A f \in files_iter(hist.startFaces) : faces[f] = hist.startFaces[f]
          /\ \A l \in files_iter(hist.startLms) : lms[l] = hist.startLms[l]
    /\ hist.overwritten = {}

====
